---- MODULE Spec2Model ----
(***************************************************************************)
(* A model of gap_screener.py: the weekly forex gap screener.              *)
(*                                                                         *)
(* One run of main() is the state machine: the per-ticker loop (fetch,     *)
(* locate the Friday close and the Sunday open, compute the gap, append a  *)
(* row), build_report, then the delivery step (dry-run, missing SMTP       *)
(* settings, or send_email).                                               *)
(*                                                                         *)
(* Encodings.  A Python value that may be None is a sequence: <<>> is      *)
(* None and <<v>> is the value v.  Prices are floats in the program; here  *)
(* they are integers drawn from sets on which the gap formula's division   *)
(* is exact.  A timestamp is an hour count in UTC, hour 0 being Monday     *)
(* 00:00 UTC of the first week of the lookback window.  The index of a     *)
(* frame is a set of distinct timestamps (a DatetimeIndex of hourly bars). *)
(***************************************************************************)
EXTENDS Integers, Sequences, FiniteSets, TLC

\* ---------------------------------------------------------------- bounds
MaxPairs == 3
MaxBars == 4

\* ------------------------------------------------------------- constants
FRIDAY == 4
SUNDAY == 6
REOPEN_HOUR == 22
\* Europe/Paris switches between UTC+1 and UTC+2 on a Sunday at 01:00 UTC;
\* the Sunday of the first week of the window is hour 6*24 + 1.
DstSwitch == 145

Absent == <<>>
Some(v) == <<v>>

VARIABLES
    pairs,      \* the ticker list main() iterates over
    feed,       \* what the provider does on its i-th call
    season,     \* which UTC offsets Europe/Paris has during the window
    environ,    \* the SMTP_* / EMAIL_* environment variables
    dry_run,    \* args.dry_run
    pc,         \* where main() is: "loop", "deliver", "done"
    idx,        \* position of the for loop in pairs (1-based)
    located,    \* what get_friday_close_and_sunday_open returned, per ticker
    rows,       \* main's list rows
    report_df,  \* build_report's result
    printed,    \* whether print(body) ran
    csv_file,   \* the dry-run CSV file, once written
    smtp_calls, \* the calls made to send_email
    exit_code   \* main's return value (1: an uncaught exception)

vars == <<pairs, feed, season, environ, dry_run, pc, idx, located, rows,
          report_df, printed, csv_file, smtp_calls, exit_code>>

\* ------------------------------------------------------------ input sets
Tickers == {"EURUSD=X", "BADTICKER"}
Seasons == {"winter", "summer", "spring", "autumn"}

\* Wed 10h, Thu 23h, Fri 20h, Fri 22h, Sat 23h, Sun 20h, Sun 21h, Sun 22h
\* (all UTC), and the next week's Fri 20h and Sun 21h.
CandidateTimes == {58, 95, 116, 118, 143, 164, 165, 166, 284, 333}
BarPrices == {[open |-> 100, close |-> 50], [open |-> 50, close |-> 100]}

Bar(t, o, c) == [t |-> t, open |-> o, close |-> c]

Frame(bars, hasOpen, hasClose) ==
    [raises |-> FALSE, bars |-> bars, hasOpen |-> hasOpen, hasClose |-> hasClose]

EmptyFrame == Frame({}, TRUE, TRUE)

\* yf.download raising (network or API error).
ProviderRaises ==
    [raises |-> TRUE, bars |-> {}, hasOpen |-> TRUE, hasClose |-> TRUE]

\* Every frame of at most MaxBars bars at distinct candidate timestamps.
BarSets ==
    UNION { { { Bar(t, f[t].open, f[t].close) : t \in T } : f \in [T -> BarPrices] }
            : T \in { S \in SUBSET CandidateTimes : Cardinality(S) <= MaxBars } }

WideResponses ==
    { Frame(b, ho, hc) : b \in BarSets, ho \in BOOLEAN, hc \in BOOLEAN }

\* Fri 20h UTC close f, Sun 21h UTC open s.
Weekend(f, s) == Frame({Bar(116, f, f), Bar(165, s, s)}, TRUE, TRUE)

RunResponses ==
    { ProviderRaises,
      EmptyFrame,
      Frame({Bar(116, 100, 100)}, TRUE, FALSE),     \* no Close column
      Frame({Bar(116, 100, 100)}, TRUE, TRUE),      \* Friday only
      Weekend(100, 50),
      Weekend(50, 100) }

\* Friday closes and Sunday opens on which (s - f) / f * 100 is exact.
FridayCloses == {0, 50, 100}
SundayOpens == {0, 25, 50, 75, 100, 150}

GapResponses ==
    { Weekend(f, s) : f \in FridayCloses, s \in SundayOpens }
    \cup { Frame({Bar(116, f, f)}, TRUE, TRUE) : f \in FridayCloses }
    \cup { Frame({Bar(165, o, o)}, TRUE, TRUE) : o \in SundayOpens }
    \cup { EmptyFrame, ProviderRaises, Frame({Bar(116, 100, 100)}, TRUE, FALSE) }

Unset == Absent
EnvVar(values) == {Unset} \cup { Some(v) : v \in values }

Environments ==
    [ SMTP_HOST  : EnvVar({"", "smtp.example.org"}),
      SMTP_PORT  : EnvVar({"0", "25", "587"}),
      SMTP_USER  : EnvVar({"", "bot"}),
      SMTP_PASS  : EnvVar({"secret"}),
      EMAIL_FROM : EnvVar({"", "gaps@example.org"}),
      EMAIL_TO   : EnvVar({"a@example.org, b@example.org"}) ]

FullEnv ==
    [ SMTP_HOST  |-> Some("smtp.example.org"),
      SMTP_PORT  |-> Some("587"),
      SMTP_USER  |-> Some("bot"),
      SMTP_PASS  |-> Some("secret"),
      EMAIL_FROM |-> Unset,
      EMAIL_TO   |-> Some("a@example.org, b@example.org") ]

NoPortEnv == [FullEnv EXCEPT !.SMTP_PORT = Unset]

\* (environment, dry_run) of the runs of the main specification.
RunModes == { <<FullEnv, TRUE>>, <<FullEnv, FALSE>>, <<NoPortEnv, FALSE>> }

\* ------------------------------------------------- timezone conversion
\* df.tz_localize("UTC").tz_convert(TZ): the UTC offset of Europe/Paris.
UtcOffset(t) ==
    CASE season = "winter" -> 1
      [] season = "summer" -> 2
      [] season = "spring" -> IF t < DstSwitch THEN 1 ELSE 2
      [] season = "autumn" -> IF t < DstSwitch THEN 2 ELSE 1

LocalTime(t) == t + UtcOffset(t)

\* df.index.weekday (Monday is 0) and df.index.hour, in Europe/Paris.
Weekday(t) == (LocalTime(t) \div 24) % 7
Hour(t) == LocalTime(t) % 24

\* str(timestamp) of a timezone-aware timestamp: local wall time and offset.
StrTime(t) == <<LocalTime(t), UtcOffset(t)>>

\* ------------------------------------------------------ yf_download_safe
Exceptions == {"provider error", "'Close'"}

\* A faulty variant: the provider's exception is not swallowed.
yf_download_unsafe(resp) == resp

\* try: return yf.download(...)  except Exception: return pd.DataFrame()
yf_download_safe(resp) == IF resp.raises THEN EmptyFrame ELSE resp

\* --------------------------------------- get_friday_close_and_sunday_open
Max(S) == CHOOSE x \in S : \A y \in S : y <= x
Min(S) == CHOOSE x \in S : \A y \in S : x <= y

Index(df) == { b.t : b \in df.bars }
BarAt(df, t) == CHOOSE b \in df.bars : b.t = t

Returned(ft, fc, st, so) ==
    [exc |-> Absent, f_time |-> ft, f_close |-> fc, s_time |-> st, s_open |-> so]
Raised(e) ==
    [exc |-> Some(e), f_time |-> Absent, f_close |-> Absent,
     s_time |-> Absent, s_open |-> Absent]

\* df[df.index.weekday == 4]
FridayRows(df) == { t \in Index(df) : Weekday(t) = FRIDAY }
\* df[(df.index.weekday == 6) & (df.index.hour >= 22)]
SundayCandidates(df) ==
    { t \in Index(df) : Weekday(t) = SUNDAY /\ Hour(t) >= REOPEN_HOUR }
\* df[df.index.weekday == 6]
SundayRows(df) == { t \in Index(df) : Weekday(t) = SUNDAY }

\* A faulty variant: the first Friday bar instead of the last.
FridayTime_first(df) == Min(FridayRows(df))

\* friday_rows.index.max()
FridayTime(df) == Max(FridayRows(df))

\* df.loc[sunday_time, "Open"] if "Open" in df.columns else df.loc[sunday_time, "Close"]
SundayOpen(df, t) == IF df.hasOpen THEN BarAt(df, t).open ELSE BarAt(df, t).close

\* Lines 67-83: the Friday bar exists.
LocateFrom(df) ==
    IF ~df.hasClose THEN Raised("'Close'")
    ELSE LET friday_time == FridayTime(df)
             friday_close == BarAt(df, friday_time).close
         IN  IF SundayCandidates(df) = {}
             THEN IF SundayRows(df) = {}
                  THEN Returned(Some(friday_time), Some(friday_close), Absent, Absent)
                  ELSE LET sunday_time == Min(SundayRows(df))
                       IN  Returned(Some(friday_time), Some(friday_close),
                                    Some(sunday_time), Some(SundayOpen(df, sunday_time)))
             ELSE LET sunday_time == Min(SundayCandidates(df))
                  IN  Returned(Some(friday_time), Some(friday_close),
                               Some(sunday_time), Some(SundayOpen(df, sunday_time)))

\* A faulty variant: without the return on friday_rows.empty, the Sunday bar is
\* still resolved when there is no Friday bar.
get_sessions_without_short_circuit(resp) ==
    LET df == yf_download_safe(resp)
    IN  IF df.raises THEN Raised("provider error")
        ELSE IF df.bars = {} THEN Returned(Absent, Absent, Absent, Absent)
        ELSE IF FridayRows(df) = {}
             THEN IF SundayRows(df) = {}
                  THEN Returned(Absent, Absent, Absent, Absent)
                  ELSE LET st == IF SundayCandidates(df) = {}
                                 THEN Min(SundayRows(df))
                                 ELSE Min(SundayCandidates(df))
                       IN  Returned(Absent, Absent, Some(st), Some(SundayOpen(df, st)))
        ELSE LocateFrom(df)

get_friday_close_and_sunday_open(resp) ==
    LET df == yf_download_safe(resp)
    IN  IF df.raises THEN Raised("provider error")
        ELSE IF df.bars = {} THEN Returned(Absent, Absent, Absent, Absent)
        ELSE IF FridayRows(df) = {} THEN Returned(Absent, Absent, Absent, Absent)
        ELSE LocateFrom(df)

\* ------------------------------------------------------ main: the loop
NoFridayData == "no friday data"
NoSundayOpen == "no sunday open"
\* f"error: {e}"
ErrorNote(e) == "error: " \o e
ErrorNotes == { ErrorNote(e) : e \in Exceptions }

\* A faulty variant: the operands swapped in the numerator.
GapPct_swapped(f_close, s_open) == ((f_close - s_open) * 100) \div f_close

\* (s_open - f_close) / f_close * 100.0
GapPct(f_close, s_open) == ((s_open - f_close) * 100) \div f_close

Row(ticker, ft, fc, st, so, gap, note) ==
    [pair |-> ticker, friday_time |-> ft, friday_close |-> fc,
     sunday_time |-> st, sunday_open |-> so, gap_pct |-> gap, note |-> note]

\* str(x) if x is not None else None
StrOrNone(time) == IF time = Absent THEN Absent ELSE Some(StrTime(time[1]))

\* Lines 119-127, the body of the try block after the locate call.
ResultRow(ticker, s) ==
    LET note0 == ""
        note1 == IF s.f_close = Absent THEN NoFridayData ELSE note0
        note2 == IF s.s_open = Absent THEN NoSundayOpen ELSE note1
        gap_pct == IF s.f_close # Absent /\ s.s_open # Absent /\ s.f_close[1] # 0
                   THEN Some(GapPct(s.f_close[1], s.s_open[1]))
                   ELSE Absent
    IN  Row(ticker, StrOrNone(s.f_time), s.f_close, StrOrNone(s.s_time), s.s_open,
            gap_pct, IF note2 = "" THEN Absent ELSE Some(note2))

\* Line 130, the except block.
ErrorRow(ticker, e) ==
    Row(ticker, Absent, Absent, Absent, Absent, Absent, Some(ErrorNote(e)))

\* A faulty variant: no try/except around the loop body.
Catches_nothing(e) == FALSE

\* except Exception as e
Catches(e) == e \in Exceptions

\* One iteration's row for a located session pair s.
TickerRow(ticker, s) ==
    IF s.exc = Absent THEN ResultRow(ticker, s) ELSE ErrorRow(ticker, s.exc[1])

\* A faulty variant: the except block logs and appends nothing.
RowsAfter_skipping_errors(rs, ticker, s) ==
    IF s.exc = Absent THEN Append(rs, ResultRow(ticker, s)) ELSE rs

\* rows.append(...) of either block.
RowsAfter(rs, ticker, s) == Append(rs, TickerRow(ticker, s))

\* ------------------------------------------------------- build_report
Abs(x) == IF x < 0 THEN -x ELSE x

\* df["gap_pct"].abs().fillna(0)
AbsGap(row) == IF row.gap_pct = Absent THEN 0 ELSE Abs(row.gap_pct[1])

Orderings(n) ==
    { p \in [1..n -> 1..n] : \A i, j \in 1..n : i # j => p[i] # p[j] }

\* sort_values("abs_gap", ascending=False) with the default kind="quicksort",
\* which is not a stable sort: any order that is descending in abs_gap.
SortOrders(rs) ==
    { p \in Orderings(Len(rs)) :
        \A i, j \in 1..Len(rs) : i < j => AbsGap(rs[p[i]]) >= AbsGap(rs[p[j]]) }

\* The frame build_report returns: each row with its index label (its
\* position in rows), in the order p.
Reordered(rs, p) == [k \in 1..Len(rs) |-> [index |-> p[k], row |-> rs[p[k]]]]

\* ------------------------------------------------------ SMTP settings
\* Python truthiness: None and "" are false; None and 0 are false.
Truthy(v) == v # Absent /\ v[1] # ""
TruthyInt(v) == v # Absent /\ v[1] # 0

\* int(...)
ParseInt(str) == CASE str = "0" -> 0 [] str = "25" -> 25 [] str = "587" -> 587

\* [e.strip() for e in EMAIL_TO.split(",")]
SplitAndStrip(str) ==
    CASE str = "a@example.org, b@example.org" -> <<"a@example.org", "b@example.org">>

SMTP_HOST == environ.SMTP_HOST
\* int(os.environ.get("SMTP_PORT", "587")) if os.environ.get("SMTP_PORT") else None
SMTP_PORT ==
    IF Truthy(environ.SMTP_PORT) THEN Some(ParseInt(environ.SMTP_PORT[1])) ELSE Absent
SMTP_USER == environ.SMTP_USER
SMTP_PASS == environ.SMTP_PASS
\* os.environ.get("EMAIL_FROM") or os.environ.get("SMTP_USER")
EMAIL_FROM == IF Truthy(environ.EMAIL_FROM) THEN environ.EMAIL_FROM ELSE environ.SMTP_USER
EMAIL_TO == environ.EMAIL_TO

\* A faulty variant: the password is not checked.
SettingsComplete_without_password ==
    Truthy(SMTP_HOST) /\ TruthyInt(SMTP_PORT) /\ Truthy(SMTP_USER)
    /\ Truthy(EMAIL_FROM) /\ Truthy(EMAIL_TO)

\* all([SMTP_HOST, SMTP_PORT, SMTP_USER, SMTP_PASS, EMAIL_FROM, EMAIL_TO])
SettingsComplete ==
    Truthy(SMTP_HOST) /\ TruthyInt(SMTP_PORT) /\ Truthy(SMTP_USER) /\ Truthy(SMTP_PASS)
    /\ Truthy(EMAIL_FROM) /\ Truthy(EMAIL_TO)

\* ----------------------------------------------------------------- Init
TickerLists == UNION { [1..n -> Tickers] : n \in 0..MaxPairs }

Start ==
    /\ pc = "loop"
    /\ idx = 1
    /\ located = <<>>
    /\ rows = <<>>
    /\ report_df = Absent
    /\ printed = FALSE
    /\ csv_file = Absent
    /\ smtp_calls = <<>>
    /\ exit_code = Absent

\* Runs over every ticker list, with a provider response per call.
Init ==
    /\ pairs \in TickerLists
    /\ feed \in [1..Len(pairs) -> RunResponses]
    /\ season = "winter"
    /\ \E m \in RunModes : environ = m[1] /\ dry_run = m[2]
    /\ Start

\* Runs on one ticker over every bounded frame and Europe/Paris offset.
InitLocate ==
    /\ pairs = <<"EURUSD=X">>
    /\ feed \in [1..1 -> WideResponses]
    /\ season \in Seasons
    /\ \E m \in RunModes : environ = m[1] /\ dry_run = m[2]
    /\ Start

\* Runs on one ticker over every pair of a Friday close and a Sunday open.
InitGap ==
    /\ pairs \in [1..1 -> Tickers]
    /\ feed \in [1..1 -> GapResponses]
    /\ season \in {"winter", "summer"}
    /\ \E m \in RunModes : environ = m[1] /\ dry_run = m[2]
    /\ Start

\* Runs on one ticker over every environment and both modes.
InitDeliver ==
    /\ pairs = <<"EURUSD=X">>
    /\ feed \in [1..1 -> RunResponses]
    /\ season = "winter"
    /\ environ \in Environments
    /\ dry_run \in BOOLEAN
    /\ Start

\* -------------------------------------------------------------- actions
\* Lines 116-130: one iteration of the for loop.
ProcessTicker ==
    /\ pc = "loop"
    /\ idx <= Len(pairs)
    /\ LET ticker == pairs[idx]
           s == get_friday_close_and_sunday_open(feed[idx])
       IN  /\ located' = Append(located, s)
           /\ IF s.exc = Absent \/ Catches(s.exc[1])
              THEN /\ rows' = RowsAfter(rows, ticker, s)
                   /\ idx' = idx + 1
                   /\ UNCHANGED <<pc, exit_code>>
              ELSE /\ pc' = "done"
                   /\ exit_code' = Some(1)
                   /\ UNCHANGED <<rows, idx>>
    /\ UNCHANGED <<pairs, feed, season, environ, dry_run, report_df, printed,
                   csv_file, smtp_calls>>

\* Lines 132-150: the loop is over; the report, the body and the CSV text.
BuildReport ==
    /\ pc = "loop"
    /\ idx > Len(pairs)
    /\ \E p \in SortOrders(rows) : report_df' = Some(Reordered(rows, p))
    /\ pc' = "deliver"
    /\ UNCHANGED <<pairs, feed, season, environ, dry_run, idx, located, rows,
                   printed, csv_file, smtp_calls, exit_code>>

\* Lines 152-159.
DryRun ==
    /\ pc = "deliver"
    /\ dry_run
    /\ csv_file' = report_df
    /\ printed' = TRUE
    /\ exit_code' = Some(0)
    /\ pc' = "done"
    /\ UNCHANGED <<pairs, feed, season, environ, dry_run, idx, located, rows,
                   report_df, smtp_calls>>

\* Lines 162-165.
MissingSettings ==
    /\ pc = "deliver"
    /\ ~dry_run
    /\ ~SettingsComplete
    /\ printed' = TRUE
    /\ exit_code' = Some(2)
    /\ pc' = "done"
    /\ UNCHANGED <<pairs, feed, season, environ, dry_run, idx, located, rows,
                   report_df, csv_file, smtp_calls>>

\* Lines 167-171 and send_email: the transport either delivers or raises,
\* and main does not catch what it raises.
SendEmail ==
    /\ pc = "deliver"
    /\ ~dry_run
    /\ SettingsComplete
    /\ smtp_calls' = Append(smtp_calls,
            [host |-> SMTP_HOST, port |-> SMTP_PORT, user |-> SMTP_USER,
             password |-> SMTP_PASS, sender |-> EMAIL_FROM,
             recipients |-> SplitAndStrip(EMAIL_TO[1]), attachment |-> report_df[1]])
    /\ \E delivered \in BOOLEAN : exit_code' = Some(IF delivered THEN 0 ELSE 1)
    /\ pc' = "done"
    /\ UNCHANGED <<pairs, feed, season, environ, dry_run, idx, located, rows,
                   report_df, printed, csv_file>>

Next == ProcessTicker \/ BuildReport \/ DryRun \/ MissingSettings \/ SendEmail

Spec == Init /\ [][Next]_vars
SpecLocate == InitLocate /\ [][Next]_vars
SpecDeliver == InitDeliver /\ [][Next]_vars
SpecGap == InitGap /\ [][Next]_vars


\* ---------------------------------------------------------------- claims
Processed == 1..Len(rows)
LoopFinished == pc # "loop" \/ idx > Len(pairs)
HasGap(row) == row.gap_pct # Absent
IsErrorRow(row) == row.note # Absent /\ row.note[1] \in ErrorNotes
NumbersAndTimesAbsent(row) ==
    /\ row.friday_close = Absent /\ row.sunday_open = Absent /\ row.gap_pct = Absent
    /\ row.friday_time = Absent /\ row.sunday_time = Absent

\* C1: when the loop of main finishes, rows holds exactly one row per ticker
\* occurrence, in the input order, whatever the tickers' outcomes; during the
\* loop it holds one row per ticker processed so far.
C1_OneRowPerTicker ==
    /\ Len(rows) = (IF LoopFinished THEN Len(pairs) ELSE idx - 1)
    /\ \A i \in Processed : rows[i].pair = pairs[i]

\* C1 witness: a finished loop over a list with a duplicate ticker, holding a
\* row with a gap, a row of a swallowed provider error and an error row.
C1_Witness ==
    /\ pc = "deliver"
    /\ Len(rows) = 3
    /\ \E i, j \in Processed : i # j /\ pairs[i] = pairs[j]
    /\ \E i \in Processed : HasGap(rows[i])
    /\ \E i \in Processed : feed[i].raises
    /\ \E i \in Processed : IsErrorRow(rows[i])

C4_NotesNameTheMissingSide ==
    \A i \in Processed :
        located[i].exc = Absent =>
            rows[i].note =
                (IF rows[i].friday_close = Absent THEN Some(NoFridayData)
                 ELSE IF rows[i].sunday_open = Absent THEN Some(NoSundayOpen)
                 ELSE Absent)

\* C7: the gap of a row is present exactly when both prices are present and
\* the Friday close is nonzero, and then gap * friday_close =
\* (sunday_open - friday_close) * 100 with the sign of the move; a missing
\* operand or a zero Friday close gives an absent gap and no error row.
C7_GapPresentIffComputable ==
    \A i \in Processed :
        LET r == rows[i]
            fc == r.friday_close
            so == r.sunday_open
        IN  /\ HasGap(r) <=> (fc # Absent /\ so # Absent /\ fc[1] # 0)
            /\ HasGap(r) =>
                  /\ r.gap_pct[1] * fc[1] = (so[1] - fc[1]) * 100
                  /\ fc[1] > 0 => /\ (r.gap_pct[1] > 0 <=> so[1] > fc[1])
                                  /\ (r.gap_pct[1] < 0 <=> so[1] < fc[1])
            /\ (located[i].exc = Absent /\ ~HasGap(r)) => ~IsErrorRow(r)

\* C7 witness: a finished run whose row has a zero Friday close and a Sunday
\* open, without a gap and without a note.
C7_Witness ==
    /\ pc = "done" /\ exit_code = Some(0)
    /\ \E i \in Processed :
           /\ rows[i].friday_close = Some(0) /\ rows[i].sunday_open = Some(50)
           /\ rows[i].gap_pct = Absent /\ rows[i].note = Absent

\* C8: build_report returns a permutation of the rows in descending absolute
\* gap, an absent gap counting as 0 and staying absent, and rows of equal
\* magnitude keep their processing order (the sort is stable).
C8_StableDescendingSort ==
    report_df # Absent =>
        LET rep == report_df[1]
        IN  /\ Len(rep) = Len(rows)
            /\ \A k \in 1..Len(rows) : \E i \in 1..Len(rep) : rep[i].index = k
            /\ \A i \in 1..Len(rep) : rep[i].row = rows[rep[i].index]
            /\ \A i, j \in 1..Len(rep) :
                   i < j => /\ AbsGap(rep[i].row) >= AbsGap(rep[j].row)
                            /\ AbsGap(rep[i].row) = AbsGap(rep[j].row)
                                   => rep[i].index < rep[j].index

\* The bars of a frame by local weekday, and the qualifying Sunday bars.
FridayBars(df) == { b \in df.bars : Weekday(b.t) = FRIDAY }
SundayBars(df) == { b \in df.bars : Weekday(b.t) = SUNDAY }
ReopenBars(df) == { b \in SundayBars(df) : Hour(b.t) >= REOPEN_HOUR }
IsLatest(b, B) == b \in B /\ \A c \in B : c.t <= b.t
IsEarliest(b, B) == b \in B /\ \A c \in B : b.t <= c.t
OpenOf(df, b) == IF df.hasOpen THEN b.open ELSE b.close

\* C5: for every series (a frame with its Close column) with a Friday bar, the
\* Friday boundary is the Friday bar of maximum timestamp and its close; the
\* Sunday boundary is the earliest Sunday bar of local hour >= 22, or, when
\* there is none, the earliest Sunday bar of any hour, or, when there is no
\* Sunday bar, absent, the Friday fields still being returned.
C5_LocatesBoundaryBars ==
    \A i \in 1..Len(located) :
        LET df == feed[i]
            s == located[i]
            pool == IF ReopenBars(df) # {} THEN ReopenBars(df) ELSE SundayBars(df)
        IN  (~df.raises /\ df.hasClose /\ FridayBars(df) # {}) =>
                /\ s.exc = Absent
                /\ \E b \in df.bars :
                       /\ IsLatest(b, FridayBars(df))
                       /\ s.f_time = Some(b.t) /\ s.f_close = Some(b.close)
                /\ IF pool = {}
                   THEN s.s_time = Absent /\ s.s_open = Absent
                   ELSE \E b \in df.bars :
                            /\ IsEarliest(b, pool)
                            /\ s.s_time = Some(b.t) /\ s.s_open = Some(OpenOf(df, b))

\* C5 witness: two Friday bars, the later one returned, and a Sunday bar
\* before 22h that was passed over for the later bar at or after 22h.
C5_Witness ==
    /\ Len(located) = 1
    /\ located[1].f_time # Absent /\ located[1].s_time # Absent
    /\ \E b \in FridayBars(feed[1]) : b.t < located[1].f_time[1]
    /\ Hour(located[1].s_time[1]) >= REOPEN_HOUR
    /\ \E b \in SundayBars(feed[1]) : b.t < located[1].s_time[1]

\* C6: a frame without a Friday bar gives all four fields absent even when it
\* holds Sunday bars; hence a present Sunday field implies present Friday
\* fields in every returned session pair.
C6_FridayIsPrerequisite ==
    \A i \in 1..Len(located) :
        LET df == feed[i]
            s == located[i]
        IN  /\ (~df.raises /\ FridayBars(df) = {}) =>
                   s = Returned(Absent, Absent, Absent, Absent)
            /\ (s.s_time # Absent \/ s.s_open # Absent) =>
                   (s.f_time # Absent /\ s.f_close # Absent)

\* C6 witness: a frame with a qualifying Sunday bar and no Friday bar, for
\* which all four fields came back absent.
C6_Witness ==
    /\ Len(located) = 1
    /\ FridayBars(feed[1]) = {} /\ ReopenBars(feed[1]) # {}
    /\ located[1] = Returned(Absent, Absent, Absent, Absent)

\* The six settings as the environment gives them; the sender may come from
\* EMAIL_FROM or, failing that, from SMTP_USER.
IsSet(v) == v # Unset /\ v # Some("")
AllSixSet ==
    /\ IsSet(environ.SMTP_HOST) /\ IsSet(environ.SMTP_PORT)
    /\ IsSet(environ.SMTP_USER) /\ IsSet(environ.SMTP_PASS)
    /\ IsSet(environ.EMAIL_FROM) \/ IsSet(environ.SMTP_USER)
    /\ IsSet(environ.EMAIL_TO)

C10_PortDefaultsTo587 ==
    (/\ pc = "done" /\ ~dry_run
     /\ environ.SMTP_PORT = Unset
     /\ IsSet(environ.SMTP_HOST) /\ IsSet(environ.SMTP_USER)
     /\ IsSet(environ.SMTP_PASS) /\ IsSet(environ.EMAIL_TO)) =>
        /\ Len(smtp_calls) = 1
        /\ smtp_calls[1].port = Some(587)

====
